---- MODULE Spec2Model ----
(***************************************************************************)
(* Model of the SEO analyzer: app/seo.py (analyze, parse_html, the         *)
(* Playwright render stage, rendered_compare_matrix) and the AMP           *)
(* comparison of app/main.py.                                              *)
(*                                                                         *)
(* Python values are tagged records so that None, str, int and bool keep   *)
(* their own truthiness and equality.  A markup document is the list of    *)
(* elements BeautifulSoup would find in it.  The em dash U+2014 that the   *)
(* code uses as display sentinel is written DASH.                          *)
(***************************************************************************)
EXTENDS Integers, Sequences, FiniteSets, TLC

(***************************************************************************)
(* Bounds of the model.                                                    *)
(***************************************************************************)
MaxH1 == 2        \* most <h1> elements in a document
MaxScripts == 1   \* most JSON-LD <script> elements in a document
MaxItems == 2     \* most [itemscope] / RDFa elements in a document

(***************************************************************************)
(* Python values.                                                          *)
(***************************************************************************)
None == [t |-> "none"]
Str(s) == [t |-> "str", v |-> s]
IntV(n) == [t |-> "int", v |-> n]
BoolV(b) == [t |-> "bool", v |-> b]

DASH == "--"

\* bool(x)
Truthy(x) ==
  CASE x.t = "none" -> FALSE
    [] x.t = "str" -> x.v # ""
    [] x.t = "int" -> x.v # 0
    [] x.t = "bool" -> x.v

\* bool is a subclass of int: True == 1 and False == 0
Num(x) == IF x.t = "bool" THEN (IF x.v THEN 1 ELSE 0) ELSE x.v

\* x == y
PyEq(x, y) ==
  CASE x.t = "none" -> y.t = "none"
    [] x.t = "str" -> y.t = "str" /\ x.v = y.v
    [] x.t \in {"int", "bool"} -> y.t \in {"int", "bool"} /\ Num(x) = Num(y)

\* x or y
PyOr(x, y) == IF Truthy(x) THEN x ELSE y

\* x in (None, "")
InNoneOrEmpty(x) == PyEq(x, None) \/ PyEq(x, Str(""))

Min(a, b) == IF a < b THEN a ELSE b

RECURSIVE SeqsUpTo(_, _)
SeqsUpTo(S, n) ==
  IF n = 0 THEN {<<>>}
  ELSE LET shorter == SeqsUpTo(S, n - 1)
       IN shorter \cup {Append(s, x) : s \in {q \in shorter : Len(q) = n - 1}, x \in S}

(***************************************************************************)
(* URLs.  urljoin and urlparse(...).netloc on the hrefs of the model.      *)
(* urljoin raises ValueError("Invalid IPv6 URL") on an unbalanced '['.     *)
(***************************************************************************)
SiteUrl == "http://site/"

UrlJoinRaises(base, href) == href = "http://["

urljoin(base, href) ==
  CASE href = "" -> base
    [] href = "/a" -> "http://site/a"
    [] href = "/b" -> "http://site/b"
    [] href = "/c" -> "http://site/c"
    [] href = "/amp" -> "http://site/amp"
    [] OTHER -> href

\* the pages of a long link list: http://site/p1 ... and http://ext/p1 ...
MaxPages == 301
SitePages == [i \in 1..MaxPages |-> "http://site/p" \o ToString(i)]
ExtPages == [i \in 1..MaxPages |-> "http://ext/p" \o ToString(i)]
Range(seq) == {seq[i] : i \in 1..Len(seq)}

netloc(u) ==
  CASE u \in {"http://site/", "http://site/a", "http://site/b", "http://site/c",
              "http://site/amp"} -> "site"
    [] u = "http://ext/x" -> "ext"
    [] u \in Range(SitePages) -> "site"
    [] u \in Range(ExtPages) -> "ext"
    [] OTHER -> ""

\* str.lower() on the meta keys of the model
Lower(s) == IF s = "Description" THEN "description" ELSE s

(***************************************************************************)
(* Markup documents.                                                       *)
(***************************************************************************)
\* <meta attr=key content=content>, inside <head> or not
Meta(attr, key, content, in_head) ==
  [attr |-> attr, key |-> key, content |-> content, in_head |-> in_head]

M_desc_empty == Meta("name", "description", Str(""), TRUE)
M_desc == Meta("name", "description", Str("d"), TRUE)
M_desc_upper == Meta("name", "Description", Str("D"), TRUE)
M_desc_nocontent == Meta("name", "description", None, TRUE)
M_og_desc == Meta("property", "og:description", Str("od"), TRUE)
M_og_body == Meta("property", "og:title", Str("t"), FALSE)
M_robots == Meta("name", "robots", Str("noindex"), TRUE)
M_viewport == Meta("name", "viewport", Str("width=device-width"), TRUE)
M_twitter == Meta("name", "twitter:card", Str("summary"), TRUE)
M_twitter_body == Meta("name", "twitter:card", Str("summary"), FALSE)

MetaLists ==
  {<<>>, <<M_desc_empty>>, <<M_desc>>, <<M_desc_upper>>, <<M_desc_nocontent>>,
   <<M_og_desc>>, <<M_og_body>>, <<M_robots>>, <<M_viewport>>, <<M_twitter>>,
   <<M_twitter_body>>, <<M_desc_empty, M_og_desc>>, <<M_og_desc, M_desc>>}

AnchorLists ==
  {<<>>, <<Str("/a")>>, <<Str("/a"), Str("/a")>>, <<Str("/a"), Str("/b")>>,
   <<Str("http://ext/x")>>, <<Str("/a"), Str("http://ext/x")>>, <<Str("")>>,
   <<None>>, <<Str("http://[")>>}

TitleTexts == {None, Str(""), Str("Home"), Str(DASH)}
H1Texts == {"", "Welcome"}
ScriptKinds == {"object", "list2", "invalid"}

BlankDoc ==
  [title |-> None,        \* _text(head.title), None without a <title>
   metas |-> <<>>,        \* the <meta> elements in document order
   canonical |-> None,    \* href of <link rel=canonical>, None without one
   amphtml |-> None,      \* href of <link rel=amphtml>, None without one
   h1 |-> <<>>,           \* _text of every <h1>
   scripts |-> <<>>,      \* the <script type=application/ld+json> bodies
   itemscope |-> 0,       \* elements carrying itemscope
   rdfa |-> 0,            \* elements (other than <meta>) carrying vocab/typeof/property
   anchors |-> <<>>]      \* href attribute of every <a>, None when it has none

\* Documents: the blank document with one kind of element set.
Docs ==
  {[BlankDoc EXCEPT !.title = v] : v \in TitleTexts}
  \cup {[BlankDoc EXCEPT !.metas = v] : v \in MetaLists}
  \cup {[BlankDoc EXCEPT !.canonical = v] : v \in {Str("/c"), Str("http://[")}}
  \cup {[BlankDoc EXCEPT !.amphtml = v] : v \in {Str("/amp")}}
  \cup {[BlankDoc EXCEPT !.h1 = v] : v \in SeqsUpTo(H1Texts, MaxH1)}
  \cup {[BlankDoc EXCEPT !.scripts = v] : v \in SeqsUpTo(ScriptKinds, MaxScripts)}
  \cup {[BlankDoc EXCEPT !.itemscope = v] : v \in 0..MaxItems}
  \cup {[BlankDoc EXCEPT !.rdfa = v] : v \in 0..MaxItems}
  \cup {[BlankDoc EXCEPT !.anchors = v] : v \in AnchorLists}

\* Empty markup: page.content() returning "" (falsy in Python)
EmptyHtml == Str("")

(***************************************************************************)
(* Extraction helpers shared by parse_html and _summarize_for_compare.     *)
(***************************************************************************)
HeadMetas(doc) == SelectSeq(doc.metas, LAMBDA m : m.in_head)

\* for meta in head.find_all("meta"): desc = desc or meta.get("content")
RECURSIVE DescLoop(_, _, _)
DescLoop(metas, i, desc) ==
  IF i > Len(metas) THEN desc
  ELSE DescLoop(metas, i + 1,
                IF Lower(metas[i].key) \in {"description", "og:description"}
                THEN PyOr(desc, metas[i].content) ELSE desc)

\* for meta in head.find_all("meta"): robots = meta.get("content")
RECURSIVE RobotsLoop(_, _, _)
RobotsLoop(metas, i, robots) ==
  IF i > Len(metas) THEN robots
  ELSE RobotsLoop(metas, i + 1,
                  IF Lower(metas[i].key) = "robots" THEN metas[i].content ELSE robots)

\* re.compile(r"^og:", re.I) on the property attribute
IsOgMeta(m) == m.attr = "property" /\ m.key \in {"og:description", "og:title"}
\* re.compile(r"^twitter:", re.I) on the name attribute
IsTwitterMeta(m) == m.attr = "name" /\ m.key \in {"twitter:card"}
IsViewportMeta(m) == m.attr = "name" /\ m.key = "viewport"

\* soup.select("[vocab], [typeof], [property]"): <meta property=...> is matched too
RdfaElements(doc) == doc.rdfa + Len(SelectSeq(doc.metas, LAMBDA m : m.attr = "property"))

\* canon = urljoin(url, href) if (link and link.get("href")) else None
LinkHref(url, href) == IF Truthy(href) THEN Str(urljoin(url, href.v)) ELSE None
LinkHrefRaises(url, href) == Truthy(href) /\ UrlJoinRaises(url, href.v)

\* the for loop of _norm_urls over urls[lo..hi], out being what was kept before;
\* the range is walked in two halves to keep the evaluation shallow
RECURSIVE norm_urls_loop(_, _, _, _)
norm_urls_loop(urls, lo, hi, out) ==
  IF lo > hi THEN out
  ELSE IF lo = hi
  THEN IF urls[lo] = "" THEN out
       ELSE IF \E j \in 1..Len(out) : out[j] = urls[lo] THEN out
       ELSE Append(out, urls[lo])
  ELSE LET mid == (lo + hi) \div 2
           left == norm_urls_loop(urls, lo, mid, out)
       IN IF Len(left) >= 0      \* the first half is finished before the second starts
          THEN norm_urls_loop(urls, mid + 1, hi, left)
          ELSE left

norm_urls(urls) == norm_urls_loop(urls, 1, Len(urls), <<>>)

\* json.loads of one script body: the dict items it contributes to json_ld
ScriptItems(kind) ==
  CASE kind = "object" -> <<"item">>
    [] kind = "list2" -> <<"item", "item">>
    [] kind = "invalid" -> <<>>

RECURSIVE JsonLdItems(_, _)
JsonLdItems(scripts, i) ==
  IF i > Len(scripts) THEN <<>> ELSE ScriptItems(scripts[i]) \o JsonLdItems(scripts, i + 1)

extract_structured_data_full(body) ==
  [json_ld |-> JsonLdItems(body.scripts, 1),
   microdata |-> IF body.itemscope > 0 THEN <<[count |-> body.itemscope]>> ELSE <<>>,
   rdfa |-> IF RdfaElements(body) > 0 THEN <<[count |-> RdfaElements(body)]>> ELSE <<>>]

(***************************************************************************)
(* Phase 1: parse_html.                                                    *)
(***************************************************************************)
\* hrefs the link loop keeps: "if not href: continue"
KeptHrefs(doc) == SelectSeq(doc.anchors, LAMBDA h : Truthy(h))

\* urljoin raising ValueError inside parse_html
parse_html_raises(url, body) ==
  \/ LinkHrefRaises(url, body.canonical)
  \/ LinkHrefRaises(url, body.amphtml)
  \/ \E i \in 1..Len(KeptHrefs(body)) : UrlJoinRaises(url, KeptHrefs(body)[i].v)

AbsLinks(url, doc) == [i \in 1..Len(KeptHrefs(doc)) |-> urljoin(url, KeptHrefs(doc)[i].v)]

\* a slice that keeps everything
take_all(seq, n) == seq

\* seq[:n]
Take(seq, n) == SubSeq(seq, 1, Min(Len(seq), n))

\* int(s) on the status strings of the model
StrToInt(s) == IF s = "404" THEN 404 ELSE 200

HeaderGet(headers, k) == IF k \in DOMAIN headers THEN Str(headers[k]) ELSE None

parse_html(url, body, headers, load_ms) ==
  LET title == body.title
      desc == DescLoop(HeadMetas(body), 1, None)
      robots == RobotsLoop(HeadMetas(body), 1, None)
      canon == LinkHref(url, body.canonical)
      amp_url == LinkHref(url, body.amphtml)
      h1 == SelectSeq(body.h1, LAMBDA h : h # "")
      base_host == netloc(url)
      links == AbsLinks(url, body)
      internal_links == Take(norm_urls(SelectSeq(links, LAMBDA u : netloc(u) = base_host)), 300)
      external_links == Take(norm_urls(SelectSeq(links, LAMBDA u : netloc(u) # base_host)), 300)
      sd_all == extract_structured_data_full(body)
      viewport == \E i \in 1..Len(HeadMetas(body)) : IsViewportMeta(HeadMetas(body)[i])
  IN [url |-> url,
      status_code |-> IF Truthy(HeaderGet(headers, "status"))
                      THEN StrToInt(HeaderGet(headers, "status").v) ELSE 200,
      load_time_ms |-> load_ms,
      title |-> PyOr(title, Str("")).v,
      description |-> PyOr(desc, Str("")).v,
      canonical |-> PyOr(canon, Str("")).v,
      robots_meta |-> PyOr(robots, Str("")).v,
      has_open_graph |-> \E i \in 1..Len(body.metas) : IsOgMeta(body.metas[i]),
      has_twitter_card |-> \E i \in 1..Len(body.metas) : IsTwitterMeta(body.metas[i]),
      headings |-> [h1 |-> h1],
      internal_links |-> internal_links,
      external_links |-> external_links,
      json_ld |-> sd_all.json_ld,
      microdata |-> sd_all.microdata,
      rdfa |-> sd_all.rdfa,
      is_amp |-> body.amphtml # None,
      amp_url |-> PyOr(amp_url, Str("")).v,
      checks |-> [viewport_meta |-> [present |-> viewport, ok |-> viewport]],
      performance |-> [load_time_ms |-> 0, final_url |-> ""],
      pagespeed |-> [enabled |-> FALSE],
      link_checks |-> None,
      crawl_checks |-> None,
      rendered_diff |-> [rendered |-> FALSE]]

(***************************************************************************)
(* Phase 3: the rendered side of the comparison.                           *)
(***************************************************************************)
\* <a href=...> elements: soup.find_all("a", href=True)
HrefAnchors(doc) == SelectSeq(doc.anchors, LAMBDA h : h # None)

\* urljoin raising ValueError inside _summarize_for_compare
summarize_for_compare_raises(url, html) ==
  \/ LinkHrefRaises(url, html.canonical)
  \/ \E i \in 1..Len(HrefAnchors(html)) : UrlJoinRaises(url, HrefAnchors(html)[i].v)

summarize_for_compare(url, html) ==
  LET head == HeadMetas(html)
      h1 == html.h1
      base_host == netloc(url)
      hosts == [i \in 1..Len(HrefAnchors(html)) |-> netloc(urljoin(url, HrefAnchors(html)[i].v))]
  IN [title |-> html.title,
      description |-> DescLoop(head, 1, None),
      canonical |-> LinkHref(url, html.canonical),
      robots_meta |-> RobotsLoop(head, 1, None),
      h1_count |-> IntV(Len(h1)),
      h1_first |-> IF Len(h1) > 0 THEN Str(h1[1]) ELSE None,
      has_open_graph |-> BoolV(\E i \in 1..Len(head) : IsOgMeta(head[i])),
      has_twitter_card |-> BoolV(\E i \in 1..Len(head) : IsTwitterMeta(head[i])),
      json_ld_count |-> IntV(Len(html.scripts)),
      microdata_count |-> IntV(html.itemscope),
      rdfa_count |-> IntV(RdfaElements(html)),
      internal_links_count |-> IntV(Len(SelectSeq(hosts, LAMBDA h : h = base_host))),
      external_links_count |-> IntV(Len(SelectSeq(hosts, LAMBDA h : h # base_host))),
      viewport_present |-> BoolV(\E i \in 1..Len(head) : IsViewportMeta(head[i]))]

\* the "before" dict built from the parse_html result
before_of(original) ==
  [title |-> Str(original.title),
   description |-> Str(original.description),
   canonical |-> Str(original.canonical),
   robots_meta |-> Str(original.robots_meta),
   h1_count |-> IntV(Len(original.headings.h1)),
   h1_first |-> IF Len(original.headings.h1) > 0 THEN Str(original.headings.h1[1]) ELSE None,
   has_open_graph |-> BoolV(original.has_open_graph),
   has_twitter_card |-> BoolV(original.has_twitter_card),
   json_ld_count |-> IntV(Len(original.json_ld)),
   microdata_count |-> IntV(Len(original.microdata)),
   rdfa_count |-> IntV(Len(original.rdfa)),
   internal_links_count |-> IntV(Len(original.internal_links)),
   external_links_count |-> IntV(Len(original.external_links)),
   viewport_present |-> BoolV(original.checks.viewport_meta.present)]

\* display by truthiness: b if b else DASH
display_truthy(b) == IF Truthy(b) THEN b ELSE Str(DASH)

\* "before"/"after" of a row: b if b not in (None, "") else DASH
display(b) == IF ~InNoneOrEmpty(b) THEN b ELSE Str(DASH)

\* changed taken from the two displayed values
changed_displayed(b, a) ==
  ~PyEq(IF ~InNoneOrEmpty(b) THEN b ELSE Str(DASH), IF ~InNoneOrEmpty(a) THEN a ELSE Str(DASH))

\* "changed" of a row: (b or "") != (a or "")
changed(b, a) == ~PyEq(PyOr(b, Str("")), PyOr(a, Str("")))

row(before, after, label, key) ==
  [label |-> label,
   before |-> display(before[key]),
   after |-> display(after[key]),
   changed |-> changed(before[key], after[key])]

matrix_of(before, after) ==
  <<row(before, after, "Title", "title"),
    row(before, after, "Meta Description", "description"),
    row(before, after, "Canonical", "canonical"),
    row(before, after, "Robots Meta", "robots_meta"),
    row(before, after, "H1 Count", "h1_count"),
    row(before, after, "First H1", "h1_first"),
    row(before, after, "Open Graph present", "has_open_graph"),
    row(before, after, "Twitter Card present", "has_twitter_card"),
    row(before, after, "JSON-LD blocks", "json_ld_count"),
    row(before, after, "Microdata items", "microdata_count"),
    row(before, after, "RDFa items", "rdfa_count"),
    row(before, after, "Internal Links (count)", "internal_links_count"),
    row(before, after, "External Links (count)", "external_links_count"),
    row(before, after, "Viewport Meta Present", "viewport_present")>>

\* rendered_html is falsy: None or ""
NoHtml(rendered_html) == rendered_html = None \/ rendered_html = EmptyHtml

rendered_compare_matrix_raises(original, rendered_html) ==
  ~NoHtml(rendered_html) /\ summarize_for_compare_raises(original.url, rendered_html)

rendered_compare_matrix(original, rendered_html) ==
  IF NoHtml(rendered_html) THEN [rendered |-> FALSE]
  ELSE LET before == before_of(original)
           after == summarize_for_compare(original.url, rendered_html)
       IN [rendered |-> TRUE,
           title_changed |-> ~PyEq(before.title, after.title),
           description_changed |-> ~PyEq(before.description, after.description),
           h1_count_changed |-> ~PyEq(before.h1_count, after.h1_count),
           render_excerpt |-> rendered_html,
           matrix |-> matrix_of(before, after),
           before |-> before,
           after |-> after]

(***************************************************************************)
(* The analysis request: analyze(url, do_rendered_check) and the render    *)
(* stage _render_sync run by fetch_rendered in a worker thread.            *)
(***************************************************************************)
VARIABLES
  env,                \* PW_BROWSER_CHANNEL and CHROME_PATH read at import time
  url,                \* argument of analyze
  do_rendered_check,  \* argument of analyze
  pc,                 \* position of analyze
  resp,               \* what fetch returned: body, headers, netinfo
  data,               \* the result dict of analyze, None before parse_html
  rs,                 \* _render_sync: used, browser, ctx, first navigation error
  rres,               \* what fetch_rendered returned, None before
  exc,                \* the exception analyze raised, None if none
  cancelled,          \* the task awaiting analyze was cancelled
  cache,              \* COMPARE_CACHE of main.py: url -> (ts, payload)
  now,                \* time(), in seconds
  puts,               \* the _cache_put calls made so far, in order
  got,                \* the last _cache_get call: url, time, what it returned
  build,              \* a call of build_amp_compare_payload driving analyze
  tasks               \* the /amp-compare requests and warm tasks in flight

vars == <<env, url, do_rendered_check, pc, resp, data, rs, rres, exc, cancelled,
          cache, now, puts, got, build, tasks>>
\* the state of main.py's compare cache
cvars == <<cache, now, puts, got>>
\* the callers of main.py, idle while analyze is called on its own
mvars == <<build, tasks>>

PSI_API_KEY == None

Envs == [PREFERRED_CHANNEL : {"", "msedge"}, CHROME_PATH : {"", "chrome.exe"}]

\* str(e) of the exceptions the network and the browser raise
FetchErrors == {"ConnectError", "ReadTimeout"}
ImportErrors == {"No module named 'playwright'"}
LaunchErrors == {"", "Executable doesn't exist"}
NavErrors == {"Timeout 20000ms exceeded.", "net::ERR_NAME_NOT_RESOLVED"}
CrashErrors == {"", "Target closed"}

NoHeaders == [k \in {} |-> ""]

\* the URLs analyze is called with; httpx refuses a URL without http:// or https://
Urls == {SiteUrl, ""}
UrlUnsupported(u) == u = ""

\* what the server answers: any document with 200, an error page with 404
NotFoundDocs == {BlankDoc} \cup {d \in Docs : d.title # BlankDoc.title}
Responses ==
  {[status_code |-> 200, body |-> b] : b \in Docs}
    \cup {[status_code |-> 404, body |-> b] : b \in NotFoundDocs}

\* RENDER_WAIT_STATE = os.getenv("RENDER_WAIT_STATE", "networkidle")
RENDER_WAIT_STATE == "networkidle"

\* _render_sync: used, the browser, the context, the first navigation error,
\* the wait states navigated with so far, whether a navigation succeeded
RsInit == [used |-> <<>>, browser |-> "none", ctx |-> "none", e |-> "",
           navs |-> <<>>, ok |-> FALSE]

\* no call of build_amp_compare_payload, no request or warm task
NoBuild == [pc |-> "idle", url |-> "", request |-> None, base |-> None,
            analyses |-> 0, payload |-> None]
NoTasks == <<>>

NoCache == [u \in {} |-> None]
NoGet == [url |-> "", at |-> 0, result |-> None, called |-> FALSE, nputs |-> 0]

Init ==
  /\ env \in Envs
  /\ url \in Urls
  /\ cancelled = FALSE
  /\ build = NoBuild /\ tasks = NoTasks
  /\ cache = NoCache /\ now = 0 /\ puts = <<>> /\ got = NoGet
  /\ do_rendered_check \in BOOLEAN
  /\ pc = "fetch"
  /\ resp = None
  /\ data = None
  /\ rs = RsInit
  /\ rres = None
  /\ exc = None

\* ",".join(used)
JoinUsed(used) == IF Len(used) = 0 THEN "" ELSE used[1]

Raise(msg) == pc' = "raised" /\ exc' = Str(msg)

\* fetch(url): client.get refuses the URL before any request is sent
FetchRejects ==
  /\ pc = "fetch"
  /\ UrlUnsupported(url)
  /\ Raise("UnsupportedProtocol")
  /\ UNCHANGED <<mvars, cvars, cancelled, env, url, do_rendered_check, resp, data, rs, rres>>

\* fetch(url): the GET answers with a status and a body; headers are the
\* lower-cased response headers, the status goes to netinfo
FetchOk ==
  /\ pc = "fetch"
  /\ ~UrlUnsupported(url)
  /\ \E r \in Responses :
       resp' = [body |-> r.body, headers |-> NoHeaders,
                netinfo |-> [final_url |-> url, status_code |-> r.status_code]]
  /\ pc' = "parse"
  /\ UNCHANGED <<mvars, cvars, cancelled, env, url, do_rendered_check, data, rs, rres, exc>>

\* fetch(url): httpx raises out of analyze
FetchFails ==
  /\ pc = "fetch"
  /\ ~UrlUnsupported(url)
  /\ \E e \in FetchErrors : Raise(e)
  /\ UNCHANGED <<mvars, cvars, cancelled, env, url, do_rendered_check, resp, data, rs, rres>>

\* parse_html and the performance block
Parse ==
  /\ pc = "parse"
  /\ IF parse_html_raises(url, resp.body)
     THEN Raise("Invalid IPv6 URL") /\ UNCHANGED data
     ELSE /\ data' = [parse_html(url, resp.body, resp.headers, 0) EXCEPT
                        !.performance = [load_time_ms |-> 0,
                                         final_url |-> resp.netinfo.final_url]]
          /\ pc' = "phase2"
          /\ UNCHANGED exc
  /\ UNCHANGED <<mvars, cvars, cancelled, env, url, do_rendered_check, resp, rs, rres>>

\* the checks handing over to the comparison without awaiting the render
Phase2_skips_render ==
  /\ pc = "phase2"
  /\ data' = [data EXCEPT
               !.link_checks = [internal |-> Min(Len(data.internal_links), 30),
                                external |-> Min(Len(data.external_links), 15)],
               !.crawl_checks = [sitemaps |-> <<>>]]
  /\ pc' = "finish"
  /\ UNCHANGED <<mvars, cvars, cancelled, env, url, do_rendered_check, resp, rs, rres, exc>>

\* link_audit, robots_sitemap_audit, summarize_sitemaps: every request is guarded
Phase2 ==
  /\ pc = "phase2"
  /\ data' = [data EXCEPT
               !.link_checks = [internal |-> Min(Len(data.internal_links), 30),
                                external |-> Min(Len(data.external_links), 15)],
               !.crawl_checks = [sitemaps |-> <<>>]]
  /\ pc' = IF do_rendered_check THEN "render_import" ELSE "finish"
  /\ UNCHANGED <<mvars, cvars, cancelled, env, url, do_rendered_check, resp, rs, rres, exc>>

RenderReturn(html, error, used) ==
  /\ rres' = [html |-> html, error |-> error, used |-> used]
  /\ pc' = "finish"

UsedOrNone(used) == IF Len(used) > 0 THEN JoinUsed(used) ELSE "none"

\* from playwright.sync_api import sync_playwright
RenderImport ==
  /\ pc = "render_import"
  /\ \/ pc' = "render_launch" /\ UNCHANGED rres
     \/ \E e \in ImportErrors :
          RenderReturn(None, Str("playwright import failed: " \o e), "none")
  /\ UNCHANGED <<mvars, cvars, cancelled, env, url, do_rendered_check, resp, data, rs, exc>>

\* the launches: preferred channel, then CHROME_PATH, then bundled Chromium
RenderLaunch ==
  /\ pc = "render_launch"
  /\ \/ /\ env.PREFERRED_CHANNEL \in {"msedge", "chrome"}
        /\ rs' = [rs EXCEPT !.used = <<env.PREFERRED_CHANNEL>>, !.browser = "open"]
        /\ pc' = "render_context" /\ UNCHANGED rres
     \/ /\ env.CHROME_PATH # ""
        /\ rs' = [rs EXCEPT !.used = <<"chrome-path">>, !.browser = "open"]
        /\ pc' = "render_context" /\ UNCHANGED rres
     \/ /\ rs' = [rs EXCEPT !.used = <<"chromium">>, !.browser = "open"]
        /\ pc' = "render_context" /\ UNCHANGED rres
     \/ /\ \E e \in LaunchErrors : RenderReturn(None, Str(e), "none")
        /\ UNCHANGED rs
  /\ UNCHANGED <<mvars, cvars, cancelled, env, url, do_rendered_check, resp, data, exc>>

\* browser.new_context, ctx.add_init_script, ctx.new_page
RenderContext ==
  /\ pc = "render_context"
  /\ \/ /\ rs' = [rs EXCEPT !.ctx = "open"]
        /\ pc' = "render_goto" /\ UNCHANGED rres
     \/ /\ \E e \in CrashErrors : RenderReturn(None, Str(e), UsedOrNone(rs.used))
        /\ UNCHANGED rs
  /\ UNCHANGED <<mvars, cvars, cancelled, env, url, do_rendered_check, resp, data, exc>>

\* ctx.close(); browser.close(); return: either close may raise into the
\* outer except, which returns str(e) and closes nothing
CloseAndReturn(r, html, error) ==
  \/ /\ rs' = [r EXCEPT !.ctx = "closed", !.browser = "closed"]
     /\ RenderReturn(html, error, JoinUsed(r.used))
  \/ \E e3 \in CrashErrors :              \* ctx.close() raises
       /\ rs' = r
       /\ RenderReturn(None, Str(e3), UsedOrNone(r.used))
  \/ \E e3 \in CrashErrors :              \* browser.close() raises
       /\ rs' = [r EXCEPT !.ctx = "closed"]
       /\ RenderReturn(None, Str(e3), UsedOrNone(r.used))

\* a failed first navigation reported at once, without the fallback
RenderGoto_no_fallback ==
  /\ pc = "render_goto"
  /\ \/ /\ rs' = [rs EXCEPT !.navs = Append(@, RENDER_WAIT_STATE), !.ok = TRUE]
        /\ pc' = "render_capture" /\ UNCHANGED rres
     \/ \E e \in NavErrors :
          CloseAndReturn([rs EXCEPT !.navs = Append(@, RENDER_WAIT_STATE), !.e = e],
                         None, Str(e))
  /\ UNCHANGED <<mvars, cvars, cancelled, env, url, do_rendered_check, resp, data, exc>>

\* page.goto(url, wait_until=RENDER_WAIT_STATE)
RenderGoto ==
  /\ pc = "render_goto"
  /\ \/ /\ rs' = [rs EXCEPT !.navs = Append(@, RENDER_WAIT_STATE), !.ok = TRUE]
        /\ pc' = "render_capture"
     \/ \E e \in NavErrors :
          /\ rs' = [rs EXCEPT !.navs = Append(@, RENDER_WAIT_STATE), !.e = e]
          /\ pc' = "render_fallback"
  /\ UNCHANGED <<mvars, cvars, cancelled, env, url, do_rendered_check, resp, data, rres, exc>>

\* a failed fallback navigation starting the navigation over
RenderFallback_retries ==
  /\ pc = "render_fallback"
  /\ \/ /\ rs' = [rs EXCEPT !.navs = Append(@, "load"), !.ok = TRUE]
        /\ pc' = "render_capture" /\ UNCHANGED rres
     \/ /\ rs' = [rs EXCEPT !.navs = <<>>, !.e = ""]
        /\ pc' = "render_goto" /\ UNCHANGED rres
  /\ UNCHANGED <<mvars, cvars, cancelled, env, url, do_rendered_check, resp, data, exc>>

\* page.goto(url, wait_until="load"); on failure close and return the two errors
RenderFallback ==
  /\ pc = "render_fallback"
  /\ \/ /\ rs' = [rs EXCEPT !.navs = Append(@, "load"), !.ok = TRUE]
        /\ pc' = "render_capture" /\ UNCHANGED rres
     \/ \E e2 \in NavErrors :
          CloseAndReturn([rs EXCEPT !.navs = Append(@, "load")],
                         None, Str(rs.e \o " / fallback: " \o e2))
  /\ UNCHANGED <<mvars, cvars, cancelled, env, url, do_rendered_check, resp, data, exc>>

\* page.wait_for_timeout(600); html = page.content(); ctx.close(); browser.close()
RenderCapture ==
  /\ pc = "render_capture"
  /\ \/ \E html \in Docs \cup {EmptyHtml} : CloseAndReturn(rs, html, None)
     \/ \E e \in CrashErrors :             \* page.content() raises
          /\ UNCHANGED rs
          /\ RenderReturn(None, Str(e), UsedOrNone(rs.used))
  /\ UNCHANGED <<mvars, cvars, cancelled, env, url, do_rendered_check, resp, data, exc>>

\* the task awaiting analyze is cancelled while it awaits fetch or the checks:
\* CancelledError is raised at the await and the request is torn down
CancelStatic ==
  /\ pc \in {"fetch", "phase2"}
  /\ ~cancelled
  /\ cancelled' = TRUE
  /\ Raise("CancelledError")
  /\ UNCHANGED <<mvars, cvars, env, url, do_rendered_check, resp, data, rs, rres>>

RenderPcs == {"render_import", "render_launch", "render_context", "render_goto",
              "render_fallback", "render_capture"}

\* the task is cancelled while it awaits asyncio.to_thread(_render_sync, ...):
\* analyze raises CancelledError at once, the worker thread runs on
CancelRender ==
  /\ pc \in RenderPcs
  /\ ~cancelled
  /\ cancelled' = TRUE
  /\ exc' = Str("CancelledError")
  /\ UNCHANGED <<mvars, cvars, env, url, do_rendered_check, pc, resp, data, rs, rres>>

\* the render error stored as it came
render_failed_msg_raw(err, used) == IF Truthy(err) THEN err.v ELSE ""

\* the message without the engine
render_failed_msg_no_engine(err, used) ==
  IF Truthy(err)
  THEN "Playwright render skipped/failed" \o ": " \o err.v
  ELSE "Playwright render skipped/failed"

\* msg = "Playwright render skipped/failed"; if err: msg = f"{msg}: {err} | engine={used}"
render_failed_msg(err, used) ==
  IF Truthy(err)
  THEN "Playwright render skipped/failed" \o ": " \o err.v \o " | engine=" \o used
  ELSE "Playwright render skipped/failed"

\* the failure branch storing the error alone
rendered_diff_of_error_only(original, res) ==
  IF ~NoHtml(res.html)
  THEN [k \in DOMAIN rendered_compare_matrix(original, res.html) \cup {"engine"} |->
          IF k = "engine" THEN res.used ELSE rendered_compare_matrix(original, res.html)[k]]
  ELSE [error |-> "Playwright render skipped/failed"]

\* the rendered_diff analyze stores after fetch_rendered returned
rendered_diff_of(original, res) ==
  IF ~NoHtml(res.html)
  THEN [k \in DOMAIN rendered_compare_matrix(original, res.html) \cup {"engine"} |->
          IF k = "engine" THEN res.used ELSE rendered_compare_matrix(original, res.html)[k]]
  ELSE [rendered |-> FALSE, error |-> render_failed_msg(res.error, res.used)]

\* Phase 3 after the render returned, the PageSpeed block, return data
Finish ==
  /\ pc = "finish"
  /\ ~cancelled
  /\ IF do_rendered_check /\ rendered_compare_matrix_raises(data, rres.html)
     THEN Raise("Invalid IPv6 URL") /\ UNCHANGED data
     ELSE /\ data' = [data EXCEPT
                        !.rendered_diff = IF do_rendered_check
                                          THEN rendered_diff_of(data, rres)
                                          ELSE @,
                        !.pagespeed = IF PSI_API_KEY = None THEN [enabled |-> FALSE]
                                      ELSE [enabled |-> TRUE]]
          /\ pc' = "done"
          /\ UNCHANGED exc
  /\ UNCHANGED <<mvars, cvars, cancelled, env, url, do_rendered_check, resp, rs, rres>>

Next ==
  \/ FetchRejects
  \/ FetchOk
  \/ FetchFails
  \/ Parse
  \/ Phase2
  \/ RenderImport
  \/ RenderLaunch
  \/ RenderContext
  \/ RenderGoto
  \/ RenderFallback
  \/ RenderCapture
  \/ Finish
  \/ CancelStatic
  \/ CancelRender

Spec == Init /\ [][Next]_vars

(***************************************************************************)
(* Properties.                                                             *)
(***************************************************************************)
Done == pc = "done"
RD == data.rendered_diff
\* analyze returned and the render stage had been run
RenderedRun == Done /\ do_rendered_check
\* the render stage returned no HTML
RenderAbsent == rres # None /\ NoHtml(rres.html)
\* the render stage failed: html None
RenderFailed == rres # None /\ rres.html = None
\* analyze returned a comparison of two snapshots
Compared == RenderedRun /\ RD.rendered

RowKeys ==
  <<"title", "description", "canonical", "robots_meta", "h1_count", "h1_first",
    "has_open_graph", "has_twitter_card", "json_ld_count", "microdata_count",
    "rdfa_count", "internal_links_count", "external_links_count", "viewport_present">>
TextRows == {1, 2, 3, 4, 6}
CountRows == {5, 9, 10, 11, 12, 13}
FlagRows == {7, 8, 14}

\* the value of a text field, absent and empty alike
TextOf(x) == IF x = None THEN "" ELSE x.v

\* C1: whenever the rendered snapshot is absent, the comparison result has
\* rendered == false and an empty row list, whatever the static snapshot holds.
C1_AbsentRenderEmptyRows ==
  (RenderedRun /\ RenderAbsent) =>
    /\ RD.rendered = FALSE
    /\ "matrix" \in DOMAIN RD
    /\ RD.matrix = <<>>

\* C2: in every row, changed is true exactly when the pre-sentinel values differ
\* under the field's rule: string equality for text fields (absent and empty
\* alike), integer equality for counts, boolean equality for presence flags.
C2_ChangedIffValuesDiffer ==
  Compared =>
    \A i \in 1..Len(RD.matrix) :
      LET b == RD.before[RowKeys[i]]
          a == RD.after[RowKeys[i]]
      IN /\ i \in TextRows =>
              /\ b.t \in {"none", "str"} /\ a.t \in {"none", "str"}
              /\ RD.matrix[i].changed = (TextOf(b) # TextOf(a))
         /\ i \in CountRows =>
              /\ b.t = "int" /\ a.t = "int"
              /\ RD.matrix[i].changed = (b.v # a.v)
         /\ i \in FlagRows =>
              /\ b.t = "bool" /\ a.t = "bool"
              /\ RD.matrix[i].changed = (b.v # a.v)

\* the Title row of ("", "Home"): displayed as DASH against "Home", changed
C2_Witness ==
  /\ Compared
  /\ RD.before.title = Str("") /\ RD.after.title = Str("Home")
  /\ RD.matrix[1].before = Str(DASH) /\ RD.matrix[1].changed

\* C3: a failed static fetch does not end the analysis: analyze never raises
\* the fetch error to its caller (it goes on to the render stage and returns).
C3_FetchFailureRecovered ==
  (exc # None /\ exc.v \in FetchErrors) => pc # "raised"

\* the fields parse_html filled, as a tuple
StaticFields(d) ==
  <<d.url, d.status_code, d.title, d.description, d.canonical, d.robots_meta,
    d.has_open_graph, d.has_twitter_card, d.headings, d.internal_links,
    d.external_links, d.json_ld, d.microdata, d.rdfa, d.amp_url, d.checks>>

\* C4: once the static fetch succeeded, a failed render stage never aborts
\* analyze: it returns the static result unchanged, with rendered_diff.rendered
\* false and a non-empty rendered_diff.error.
C4_RenderFailureIsolated ==
  /\ RenderFailed => pc \in {"finish", "done"}
  /\ (pc = "finish" /\ RenderFailed /\ ~cancelled) => ENABLED Finish
  /\ (Done /\ RenderFailed) =>
       /\ StaticFields(data) = StaticFields(parse_html(url, resp.body, resp.headers, 0))
       /\ RD.rendered = FALSE
       /\ "error" \in DOMAIN RD
       /\ RD.error # ""

\* page.content() crashed with an empty message and analyze returned
C4_Witness ==
  /\ Done /\ RenderFailed
  /\ rres.error = Str("") /\ rs.ctx = "open"
  /\ RD.rendered = FALSE /\ RD.error # ""

\* C5: every result analyze returns holds rendered_diff with a boolean field
\* rendered: rendering not requested, failed, or succeeded.
C5_RenderedDiffAlwaysPresent ==
  Done =>
    /\ "rendered_diff" \in DOMAIN data
    /\ "rendered" \in DOMAIN RD
    /\ RD.rendered \in BOOLEAN
    /\ RD.rendered = (do_rendered_check /\ ~RenderAbsent)

\* analyze returned after both navigation attempts failed
C5_Witness ==
  /\ Done /\ RenderFailed /\ rs.e # ""
  /\ RD.rendered = FALSE

\* C6: with a rendered snapshot present the comparator returns exactly 14 rows
\* whose labels, in order, are the fixed list.
C6_FixedLabels ==
  Compared =>
    [i \in 1..Len(RD.matrix) |-> RD.matrix[i].label] =
      <<"Title", "Meta Description", "Canonical", "Robots Meta", "H1 Count", "First H1",
        "Open Graph present", "Twitter Card present", "JSON-LD blocks", "Microdata items",
        "RDFa items", "Internal links (count)", "External links (count)",
        "Viewport meta present">>

\* C7: the presence-flag rows display before and after as "Yes" or "No".
C7_FlagsShownYesNo ==
  Compared =>
    \A i \in FlagRows :
      /\ RD.matrix[i].before = Str(IF RD.before[RowKeys[i]].v THEN "Yes" ELSE "No")
      /\ RD.matrix[i].after = Str(IF RD.after[RowKeys[i]].v THEN "Yes" ELSE "No")

\* C8: in the six count rows before and after are non-negative integers, a
\* zero count included (never the sentinel, never a string).
C8_CountsAreIntegers ==
  Compared =>
    \A i \in CountRows :
      /\ RD.matrix[i].before.t = "int" /\ RD.matrix[i].before.v >= 0
      /\ RD.matrix[i].after.t = "int" /\ RD.matrix[i].after.v >= 0

\* no <h1> before, one <h1> "Welcome" after
C8_Witness ==
  /\ Compared
  /\ RD.matrix[5].before = IntV(0) /\ RD.matrix[5].after = IntV(1) /\ RD.matrix[5].changed
  /\ RD.matrix[6].before = Str(DASH) /\ RD.matrix[6].after = Str("Welcome")

\* C9: when the render stage reported the reason e, the error field of the
\* comparison result equals exactly e.
C9_ErrorIsExactlyReason ==
  (RenderedRun /\ RenderFailed /\ Truthy(rres.error)) => RD.error = rres.error.v

\* C9 as amended: the error field is the reason e wrapped as
\* "Playwright render skipped/failed: <e> | engine=<used>".
C9_ErrorWrapsReason ==
  (RenderedRun /\ RenderFailed /\ Truthy(rres.error)) =>
    RD.error = "Playwright render skipped/failed: " \o rres.error.v
                 \o " | engine=" \o rres.used

\* both navigation attempts timed out on bundled Chromium
C9_Witness ==
  /\ RenderedRun /\ RenderFailed
  /\ rres.error = Str("Timeout 20000ms exceeded. / fallback: Timeout 20000ms exceeded.")
  /\ rres.used = "chromium"
  /\ RD.error = "Playwright render skipped/failed: Timeout 20000ms exceeded. / fallback: Timeout 20000ms exceeded. | engine=chromium"

\* C10: rendered_compare_matrix never raises, whatever the parse_html result
\* and the rendered markup (present, empty or absent).
C10_CompareNeverRaises ==
  (pc = "finish" /\ do_rendered_check) => ~rendered_compare_matrix_raises(data, rres.html)


\* the render stage returned to analyze (or to the thread pool, if cancelled)
RenderReturned == rres # None

\* C11: whenever the render stage returns, exactly one of two outcomes holds:
\* html is present, or html is absent and error is a non-empty string.
C11_RenderOneOfTwoOutcomes ==
  RenderReturned =>
    (rres.html # None) # (rres.html = None /\ rres.error # None /\ rres.error.v # "")

C13_CompareAfterAllStages ==
  /\ (pc = "finish" /\ do_rendered_check) =>
       /\ resp # None /\ data # None
       /\ data.link_checks # None /\ data.crawl_checks # None
       /\ RenderReturned /\ rres.used # ""
  /\ Compared =>
       /\ RD.before = before_of(parse_html(url, resp.body, resp.headers, 0))
       /\ RD.after = summarize_for_compare(url, rres.html)
       /\ data.link_checks # None /\ data.crawl_checks # None

\* a comparison of a fetched page that has links with a rendered page that differs
C13_Witness ==
  /\ Compared
  /\ data.link_checks.internal = 2
  /\ rres.html.title = Str("Home")
  /\ RD.before.title = Str("") /\ RD.after.title = Str("Home")

\* C14: a URL that is empty or cannot be parsed is refused before any network
\* or browser I/O, and this is the only failure that keeps analyze from
\* returning a result.
C14_OnlyBadUrlAborts ==
  /\ UrlUnsupported(url) =>
       /\ pc \in {"fetch", "raised"}
       /\ resp = None /\ data = None /\ rs = RsInit /\ rres = None
  /\ (pc = "raised" /\ exc # Str("CancelledError")) => UrlUnsupported(url)


(***************************************************************************)
(* Termination.  Every blocking call of fetch and _render_sync is bounded  *)
(* by a timeout (client.get timeout=25.0, the launch and navigation        *)
(* timeouts, wait_for_timeout(600)), and the event loop and the worker     *)
(* thread keep running: a step that can be taken is taken.  Termination    *)
(* does not depend on the markup, so LiveSpec keeps every action and       *)
(* draws the documents from a sample.                                      *)
(***************************************************************************)
LiveDocs == {BlankDoc, [BlankDoc EXCEPT !.title = Str("Home")],
             [BlankDoc EXCEPT !.anchors = <<Str("http://[")>>]}

Sampled ==
  /\ resp # None => resp.body \in LiveDocs
  /\ (rres # None /\ rres.html # None) => rres.html \in LiveDocs

LiveNext == Next /\ Sampled'

LiveSpec == Init /\ [][LiveNext]_vars /\ WF_vars(LiveNext)

\* analyze returned or raised; a cancelled analyze has raised at once
Resolved == pc \in {"done", "raised"} \/ cancelled

\* C15: every started static fetch and every started render stage eventually
\* resolves to a result or a failure, and the request does not hang: it
\* eventually returns or raises.
C15_StagesResolve ==
  /\ (pc = "fetch") ~> (resp # None \/ exc # None)
  /\ (pc \in RenderPcs) ~> RenderReturned
  /\ <>Resolved

\* both navigations timed out and the stage returned the two timeouts
C15_Witness ==
  /\ RenderReturned /\ rres.html = None
  /\ rs.navs = <<RENDER_WAIT_STATE, "load">> /\ ~rs.ok
  /\ rres.error = Str("Timeout 20000ms exceeded. / fallback: Timeout 20000ms exceeded.")
  /\ Done


\* C16: if the task awaiting analyze is cancelled while the render stage is in
\* flight, the render stage is stopped and its browser closed by the time the
\* cancelled analyze has returned.
C16_CancelClosesBrowser ==
  cancelled => (pc \notin RenderPcs /\ rs.browser \in {"none", "closed"})

(***************************************************************************)
(* main.py: the compare cache.  COMPARE_CACHE maps a URL to (ts, payload); *)
(* _cache_put stamps the entry with time(), _cache_get compares the age    *)
(* with COMPARE_TTL when it reads.                                         *)
(***************************************************************************)
MaxPuts == 3
MaxTicks == 3
TickSeconds == 450

\* COMPARE_TTL = 15 * 60
COMPARE_TTL == 900

CacheKeys == {"http://site/", "http://site/amp"}

\* the payload of the n-th _cache_put
Payload(u, n) == [url |-> u, version |-> n]

\* COMPARE_CACHE[url] = (time(), payload)
cache_put(c, u, t, payload) ==
  [k \in DOMAIN c \cup {u} |-> IF k = u THEN <<t, payload>> ELSE c[k]]

\* an entry expiring when its age reaches the TTL
cache_get_expires_at_ttl(c, u, t) ==
  IF u \notin DOMAIN c THEN None
  ELSE IF t - c[u][1] >= COMPARE_TTL THEN None
  ELSE c[u][2]

\* hit = COMPARE_CACHE.get(url); None without a hit or with age > COMPARE_TTL
cache_get(c, u, t) ==
  IF u \notin DOMAIN c THEN None
  ELSE IF t - c[u][1] > COMPARE_TTL THEN None
  ELSE c[u][2]

\* the variables of analyze, idle while the cache is exercised
avars == <<env, url, do_rendered_check, pc, resp, data, rs, rres, exc, cancelled>>

CacheInit ==
  /\ env = [PREFERRED_CHANNEL |-> "", CHROME_PATH |-> ""]
  /\ url = SiteUrl /\ do_rendered_check = FALSE /\ pc = "fetch"
  /\ resp = None /\ data = None /\ rs = RsInit /\ rres = None /\ exc = None
  /\ cancelled = FALSE
  /\ build = NoBuild /\ tasks = NoTasks
  /\ cache = NoCache /\ now = 0 /\ puts = <<>> /\ got = NoGet

\* _cache_put(url, payload)
CachePut ==
  /\ Len(puts) < MaxPuts
  /\ \E u \in CacheKeys :
       LET payload == Payload(u, Len(puts) + 1)
       IN /\ cache' = cache_put(cache, u, now, payload)
          /\ puts' = Append(puts, [url |-> u, ts |-> now, payload |-> payload])
  /\ UNCHANGED <<now, got, avars, mvars>>

\* _cache_get(url)
CacheGet ==
  /\ \E u \in CacheKeys :
       got' = [url |-> u, at |-> now, result |-> cache_get(cache, u, now),
               called |-> TRUE, nputs |-> Len(puts)]
  /\ UNCHANGED <<cache, now, puts, avars, mvars>>

\* time() moves on
Tick ==
  /\ now < MaxTicks * TickSeconds
  /\ now' = now + TickSeconds
  /\ UNCHANGED <<cache, puts, got, avars, mvars>>

CacheNext ==
  \/ CachePut
  \/ CacheGet
  \/ Tick

CacheSpec == CacheInit /\ [][CacheNext]_vars

\* the index of the last of the first n puts made for u, 0 if there is none
LastPut(u, n) ==
  LET S == {i \in 1..n : puts[i].url = u}
  IN IF S = {} THEN 0 ELSE CHOOSE i \in S : \A j \in S : j <= i

\* C17: _cache_get(url) returns a payload only if an entry for url exists whose
\* age at the read is at most COMPARE_TTL, and then it is the payload put last
\* for url; otherwise it returns None.  Nothing is evicted between reads.
C17_CacheGetFreshLatest ==
  /\ got.called =>
       LET i == LastPut(got.url, got.nputs)
       IN got.result = IF i > 0 /\ got.at - puts[i].ts <= COMPARE_TTL
                       THEN puts[i].payload
                       ELSE None
  /\ \A i \in 1..Len(puts) : puts[i].url \in DOMAIN cache

\* a URL put twice, read when the second entry is exactly COMPARE_TTL old
C17_Witness ==
  /\ got.called /\ got.nputs = 2
  /\ puts[1].url = got.url /\ puts[2].url = got.url
  /\ got.at - puts[2].ts = COMPARE_TTL
  /\ got.result = Payload(got.url, 2)


(***************************************************************************)
(* The link lists of parse_html on documents that differ in their anchors  *)
(* only: every list of up to MaxAnchors hrefs, and one long list that      *)
(* holds more than 300 distinct internal and external links.               *)
(***************************************************************************)
MaxAnchors == 3

LinkHrefs == {None, Str(""), Str("/a"), Str("/b"), Str("http://ext/x")}

\* every page once, then the first internal and the first external page again
LongAnchors ==
  [i \in 1..(2 * MaxPages + 2) |->
     IF i <= MaxPages THEN Str(SitePages[i])
     ELSE IF i <= 2 * MaxPages THEN Str(ExtPages[i - MaxPages])
     ELSE IF i = 2 * MaxPages + 1 THEN Str(SitePages[1])
     ELSE Str(ExtPages[1])]

LinkDocs ==
  {[BlankDoc EXCEPT !.anchors = a] : a \in SeqsUpTo(LinkHrefs, MaxAnchors) \cup {LongAnchors}}

LinkInit ==
  /\ env = [PREFERRED_CHANNEL |-> "", CHROME_PATH |-> ""]
  /\ url = SiteUrl /\ do_rendered_check = FALSE /\ pc = "parse"
  /\ \E body \in LinkDocs :
       resp = [body |-> body, headers |-> NoHeaders,
               netinfo |-> [final_url |-> url, status_code |-> 200]]
  /\ data = None /\ rs = RsInit /\ rres = None /\ exc = None
  /\ cancelled = FALSE
  /\ build = NoBuild /\ tasks = NoTasks
  /\ cache = NoCache /\ now = 0 /\ puts = <<>> /\ got = NoGet

LinkNext == Parse

LinkSpec == LinkInit /\ [][LinkNext]_vars

NoDuplicate(seq) == \A i, j \in 1..Len(seq) : i # j => seq[i] # seq[j]

\* the non-empty elements of src at their first occurrence, in order of occurrence
FirstOccurrences(src) ==
  LET idx == [k \in 1..Len(src) |-> k]
      firsts == SelectSeq(idx, LAMBDA k : src[k] # "" /\ \A j \in 1..(k - 1) : src[j] # src[k])
  IN [i \in 1..Len(firsts) |-> src[firsts[i]]]

\* out holds no duplicate and no empty entry, at most 300 entries, and is an
\* initial part of the first occurrences in src
LinkListOk(out, src) ==
  /\ NoDuplicate(out)
  /\ \A i \in 1..Len(out) : out[i] # ""
  /\ Len(out) <= 300
  /\ LET first == FirstOccurrences(src)
     IN /\ Len(out) <= Len(first)
        /\ out = SubSeq(first, 1, Len(out))
        /\ Len(out) < Len(first) => Len(out) = 300

\* C18: internal_links and external_links of a parsed page hold no duplicate
\* URL and no empty entry, keep the order of first occurrence in the document,
\* and hold at most 300 URLs each.
C18_LinkListsNormalised ==
  data # None =>
    LET links == AbsLinks(url, resp.body)
    IN /\ LinkListOk(data.internal_links,
                     SelectSeq(links, LAMBDA u : netloc(u) = netloc(url)))
       /\ LinkListOk(data.external_links,
                     SelectSeq(links, LAMBDA u : netloc(u) # netloc(url)))

\* the long document: 301 distinct links of each kind and a repeated one, cut to 300
C18_Witness ==
  /\ data # None
  /\ Len(resp.body.anchors) = 2 * MaxPages + 2
  /\ Len(data.internal_links) = 300 /\ Len(data.external_links) = 300
  /\ data.internal_links[1] = SitePages[1]
  /\ data.external_links[300] = ExtPages[300]


\* C19: the status_code of the result equals the HTTP status of the fetched
\* response: a 404 response gives status_code 404, not 200.
C19_StatusCodeIsHttpStatus ==
  data # None => data.status_code = resp.netinfo.status_code

\* the error _render_sync returns when both navigations failed
BothFailed(e, e2) == Str(e \o " / fallback: " \o e2)
NamesBothFailures(error) == \E e, e2 \in NavErrors : error = BothFailed(e, e2)

\* C20 as stated: once a navigation was attempted, HTML is returned whenever
\* one of the two attempts succeeded, and a failure (html absent, error naming
\* both failures) is returned only when both attempts failed.
C20_FailureOnlyWhenBothFail ==
  (RenderReturned /\ Len(rs.navs) >= 1) =>
    /\ rs.ok => rres.html # None
    /\ rres.html = None =>
         /\ ~rs.ok /\ Len(rs.navs) = 2
         /\ NamesBothFailures(rres.error)

\* C20, amended: the first navigation uses the configured wait state, the
\* second uses "load" and is made exactly when the first failed, there is no
\* third; capture follows a successful navigation, and HTML is returned
\* unless page.content() or a close raised; the error naming both failures is
\* returned only when both navigations failed.
C20_NavigationFallback ==
  /\ rs.navs \in {<<>>, <<RENDER_WAIT_STATE>>, <<RENDER_WAIT_STATE, "load">>}
  /\ Len(rs.navs) = 2 <=> (rs.e \in NavErrors /\ pc # "render_fallback")
  /\ rs.ok => pc \in {"render_capture", "finish", "done", "raised"}
  /\ RenderReturned =>
       /\ Len(rs.navs) = 1 => rs.ok
       /\ rres.html # None => (rs.ok /\ rres.error = None)
       /\ (rs.ok /\ rres.html = None) => rres.error.v \in CrashErrors
       /\ NamesBothFailures(rres.error) =>
            /\ ~rs.ok /\ Len(rs.navs) = 2 /\ rres.html = None
            /\ \E e2 \in NavErrors : rres.error = BothFailed(rs.e, e2)
       /\ (Len(rs.navs) = 2 /\ ~rs.ok) =>
            /\ rres.html = None
            /\ NamesBothFailures(rres.error) \/ rres.error.v \in CrashErrors

\* the first navigation timed out, the fallback succeeded and the HTML came back
C20_Witness ==
  /\ Done /\ RenderReturned
  /\ rs.navs = <<RENDER_WAIT_STATE, "load">> /\ rs.e = "Timeout 20000ms exceeded."
  /\ rs.ok /\ rres.html \in Docs /\ rres.html.title = Str("Home")
  /\ RD.rendered


\* C21: when the rendered markup is the static markup, every row of the
\* comparison matrix has changed = FALSE: parse_html and _summarize_for_compare
\* compute each of the 14 fields to the same value for the same document.
C21_IdenticalMarkupNoChange ==
  (Compared /\ rres.html = resp.body) =>
    \A i \in 1..Len(RD.matrix) : ~RD.matrix[i].changed

\* C22: in every comparison with rendered = TRUE the summary flags agree with
\* the matrix: title_changed, description_changed and h1_count_changed equal
\* the changed value of the Title, Meta Description and H1 Count rows.
C22_FlagsAgreeWithMatrix ==
  Compared =>
    /\ RD.title_changed = RD.matrix[1].changed
    /\ RD.description_changed = RD.matrix[2].changed
    /\ RD.h1_count_changed = RD.matrix[5].changed


(***************************************************************************)
(* main.py: build_amp_compare_payload(url, request).  It awaits            *)
(* analyze(url, do_rendered_check=False), and, if that found an AMP URL,   *)
(* analyze(amp_url, do_rendered_check=False), and builds 14 rows.          *)
(***************************************************************************)
\* _val(d, key, default=default): cur if cur not in (None, "") else default
val(cur, default) == IF ~InNoneOrEmpty(cur) THEN cur ELSE default

\* "Yes" if bool(b) else "No"
yesno(b) == IF Truthy(b) THEN Str("Yes") ELSE Str("No")

\* (_val(d, "headings", "h1", default=[None]) or [None])[0]
h1_first_of(d) == IF Len(d.headings.h1) > 0 THEN Str(d.headings.h1[1]) ELSE None

amp_text_row(base, amp, label, key) ==
  [label |-> label,
   non_amp |-> val(Str(base[key]), Str(DASH)),
   amp |-> val(Str(amp[key]), Str(DASH)),
   changed |-> ~PyEq(val(Str(base[key]), None), val(Str(amp[key]), None))]

amp_count_row(label, b, a) ==
  [label |-> label, non_amp |-> IntV(b), amp |-> IntV(a), changed |-> b # a]

amp_flag_row(label, b, a) ==
  [label |-> label, non_amp |-> yesno(BoolV(b)), amp |-> yesno(BoolV(a)), changed |-> b # a]

amp_rows(base, amp) ==
  <<amp_text_row(base, amp, "Title", "title"),
    amp_text_row(base, amp, "Meta Description", "description"),
    amp_text_row(base, amp, "Canonical", "canonical"),
    amp_text_row(base, amp, "Robots Meta", "robots_meta"),
    amp_count_row("H1 Count", Len(base.headings.h1), Len(amp.headings.h1)),
    [label |-> "First H1",
     non_amp |-> PyOr(h1_first_of(base), Str(DASH)),
     amp |-> PyOr(h1_first_of(amp), Str(DASH)),
     changed |-> ~PyEq(h1_first_of(base), h1_first_of(amp))],
    amp_flag_row("Open Graph present", base.has_open_graph, amp.has_open_graph),
    amp_flag_row("Twitter Card present", base.has_twitter_card, amp.has_twitter_card),
    amp_count_row("JSON-LD blocks", Len(base.json_ld), Len(amp.json_ld)),
    amp_count_row("Microdata items", Len(base.microdata), Len(amp.microdata)),
    amp_count_row("RDFa items", Len(base.rdfa), Len(amp.rdfa)),
    amp_count_row("Internal links (count)", Len(base.internal_links), Len(amp.internal_links)),
    amp_count_row("External links (count)", Len(base.external_links), Len(amp.external_links)),
    amp_flag_row("Viewport meta present", base.checks.viewport_meta.present,
                 amp.checks.viewport_meta.present)>>

\* the payload returned when base has no amp_url
no_amp_payload(u, request) ==
  [request |-> request, url |-> u, amp_url |-> None, rows |-> <<>>,
   error |-> Str("No AMP version found via <link rel='amphtml'>.")]

\* the payload returned after both analyses
amp_payload(u, request, base, amp) ==
  [request |-> request, url |-> u, amp_url |-> Str(base.amp_url),
   rows |-> amp_rows(base, amp), error |-> None]

Requests == {None, Str("request")}

BuildInit ==
  /\ env = [PREFERRED_CHANNEL |-> "", CHROME_PATH |-> ""]
  /\ url = "" /\ do_rendered_check = FALSE /\ pc = "idle"
  /\ resp = None /\ data = None /\ rs = RsInit /\ rres = None /\ exc = None
  /\ cancelled = FALSE
  /\ cache = NoCache /\ now = 0 /\ puts = <<>> /\ got = NoGet
  /\ \E u \in Urls, request \in Requests :
       build = [NoBuild EXCEPT !.pc = "start", !.url = u, !.request = request]
  /\ tasks = NoTasks

\* analyze_url(u, do_rendered_check=False) is called and awaited
CallAnalyze(u) ==
  /\ url' = u /\ do_rendered_check' = FALSE /\ pc' = "fetch"
  /\ resp' = None /\ data' = None /\ exc' = None
  /\ UNCHANGED <<env, rs, rres, cancelled, cvars, tasks>>

\* base = await analyze_url(url, do_rendered_check=False)
BuildStart ==
  /\ build.pc = "start"
  /\ build' = [build EXCEPT !.pc = "base", !.analyses = 1]
  /\ CallAnalyze(build.url)

\* the base analysis followed by the AMP analysis whatever amp_url is
BuildAfterBase_ignores_amp_url ==
  /\ build.pc = "base" /\ pc = "done"
  /\ build' = [build EXCEPT !.pc = "amp", !.base = data, !.analyses = 2]
  /\ CallAnalyze(data.amp_url)

\* amp_url = base.get("amp_url"); if not amp_url: return the error payload;
\* amp = await analyze_url(amp_url, do_rendered_check=False)
BuildAfterBase ==
  /\ build.pc = "base" /\ pc = "done"
  /\ IF ~Truthy(Str(data.amp_url))
     THEN /\ build' = [build EXCEPT !.pc = "done", !.base = data,
                                    !.payload = no_amp_payload(build.url, build.request)]
          /\ UNCHANGED <<avars, cvars, tasks>>
     ELSE /\ build' = [build EXCEPT !.pc = "amp", !.base = data, !.analyses = 2]
          /\ CallAnalyze(data.amp_url)

\* rows = [...]; return the payload
BuildAfterAmp ==
  /\ build.pc = "amp" /\ pc = "done"
  /\ build' = [build EXCEPT
                 !.pc = "done",
                 !.payload = amp_payload(build.url, build.request, build.base, data)]
  /\ UNCHANGED <<avars, cvars, tasks>>

\* an exception of analyze leaves build_amp_compare_payload as it came
BuildRaises ==
  /\ build.pc \in {"base", "amp"} /\ pc = "raised"
  /\ build' = [build EXCEPT !.pc = "raised"]
  /\ UNCHANGED <<avars, cvars, tasks>>

BuildNext ==
  \/ BuildStart
  \/ FetchRejects
  \/ FetchOk
  \/ FetchFails
  \/ Parse
  \/ Phase2
  \/ Finish
  \/ CancelStatic
  \/ BuildAfterBase
  \/ BuildAfterAmp
  \/ BuildRaises

BuildSpec == BuildInit /\ [][BuildNext]_vars

\* C24: build_amp_compare_payload analyzes the AMP variant only if the base
\* analysis found an AMP URL.  Without one the payload has amp_url None, no
\* rows and a non-empty error, and one analysis was made; with one the payload
\* has error None and exactly 14 rows; no analysis launches a rendered fetch.
C24_AmpAnalysedOnlyIfFound ==
  /\ ~do_rendered_check /\ pc \notin RenderPcs /\ rs = RsInit /\ rres = None
  /\ build.analyses = 2 => build.base.amp_url # ""
  /\ build.pc = "done" =>
       LET p == build.payload
       IN /\ p.url = build.url /\ p.request = build.request
          /\ build.base.amp_url = "" =>
               /\ p.amp_url = None /\ p.rows = <<>>
               /\ p.error # None /\ p.error.v # ""
               /\ build.analyses = 1
          /\ build.base.amp_url # "" =>
               /\ p.amp_url = Str(build.base.amp_url)
               /\ p.error = None /\ Len(p.rows) = 14
               /\ build.analyses = 2

\* the base page links to /amp, whose title differs: 14 rows, the first changed
C24_Witness ==
  /\ build.pc = "done" /\ build.analyses = 2
  /\ build.payload.amp_url = Str("http://site/amp")
  /\ Len(build.payload.rows) = 14
  /\ build.payload.rows[1].non_amp = Str(DASH)
  /\ build.payload.rows[1].amp = Str("Home")
  /\ build.payload.rows[1].changed


(***************************************************************************)
(* main.py: /amp-compare requests and warm tasks sharing COMPARE_CACHE.    *)
(* All run on one event loop: a task runs without interruption from one    *)
(* await to the next, and other tasks run while it awaits an analysis.     *)
(***************************************************************************)
MaxTasks == 2
MaxExpiries == 1

IdleTask == [kind |-> "none", pc |-> "idle", url |-> "", request |-> None,
             base |-> None, response |-> None, exc |-> None]

\* the pages served while the tasks run: without and with an amphtml link, and
\* one whose link list makes parse_html raise
TaskDocs == {BlankDoc, [BlankDoc EXCEPT !.amphtml = Str("/amp")],
             [BlankDoc EXCEPT !.anchors = <<Str("http://[")>>]}

\* what awaiting analyze_url(u, do_rendered_check=False) gives: an exception
\* of fetch or parse_html, or the result dict
AnalyzeOutcomes(u) ==
  {[ok |-> FALSE, exc |-> Str(e), data |-> None] : e \in FetchErrors}
    \cup {IF parse_html_raises(u, b)
          THEN [ok |-> FALSE, exc |-> Str("Invalid IPv6 URL"), data |-> None]
          ELSE [ok |-> TRUE, exc |-> None, data |-> parse_html(u, b, NoHeaders, 0)]
          : b \in TaskDocs}

\* the payload stored as it was built, request included
stored_payload_as_built(payload) == payload

\* dict(payload, request=None)
stored_payload(payload) == [payload EXCEPT !.request = None]

TaskInit ==
  /\ env = [PREFERRED_CHANNEL |-> "", CHROME_PATH |-> ""]
  /\ url = SiteUrl /\ do_rendered_check = FALSE /\ pc = "idle"
  /\ resp = None /\ data = None /\ rs = RsInit /\ rres = None /\ exc = None
  /\ cancelled = FALSE
  /\ cache = NoCache /\ now = 0 /\ puts = <<>> /\ got = NoGet
  /\ build = NoBuild
  /\ tasks = [t \in 1..MaxTasks |-> IdleTask]

\* _cache_put(u, payload) called by a task
TaskPut(u, payload) ==
  /\ cache' = cache_put(cache, u, now, payload)
  /\ puts' = Append(puts, [url |-> u, ts |-> now, payload |-> payload])

\* amp_compare(request, url): a hit is served from a copy, a miss starts the build
AmpCompareCall ==
  \E t \in 1..MaxTasks, u \in CacheKeys :
    LET request == Str("request" \o ToString(t))
        cached == cache_get(cache, u, now)
    IN /\ tasks[t].pc = "idle"
       /\ got' = [url |-> u, at |-> now, result |-> cached, called |-> TRUE,
                  nputs |-> Len(puts)]
       /\ tasks' = [tasks EXCEPT ![t] =
                      IF cached # None
                      THEN [@ EXCEPT !.kind = "request", !.pc = "served", !.url = u,
                                     !.request = request,
                                     !.response = [cached EXCEPT !.request = request]]
                      ELSE [@ EXCEPT !.kind = "request", !.pc = "base", !.url = u,
                                     !.request = request]]
       /\ UNCHANGED <<cache, now, puts, avars, build>>

\* asyncio.create_task(_warm_compare_async(result["url"]))
WarmStart ==
  \E t \in 1..MaxTasks, u \in CacheKeys :
    /\ tasks[t].pc = "idle"
    /\ tasks' = [tasks EXCEPT ![t] = [@ EXCEPT !.kind = "warm", !.pc = "base", !.url = u]]
    /\ UNCHANGED <<cvars, avars, build>>

\* the build returned: amp_compare stores a copy without the request and
\* answers, the warm task stores the payload
TaskFinish(t, payload) ==
  /\ IF tasks[t].kind = "request"
     THEN /\ TaskPut(tasks[t].url, stored_payload(payload))
          /\ tasks' = [tasks EXCEPT ![t].pc = "returned", ![t].response = payload]
     ELSE /\ TaskPut(tasks[t].url, payload)
          /\ tasks' = [tasks EXCEPT ![t].pc = "done"]
  /\ UNCHANGED <<now, got, avars, build>>

\* the build raised: amp_compare lets the exception out, the warm task drops it
TaskFail(t, e) ==
  /\ tasks' = [tasks EXCEPT ![t] =
                 IF @.kind = "request"
                 THEN [@ EXCEPT !.pc = "raised", !.exc = e]
                 ELSE [@ EXCEPT !.pc = "swallowed"]]
  /\ UNCHANGED <<cvars, avars, build>>

\* the base analysis of a task's build returns or raises
TaskBase ==
  \E t \in 1..MaxTasks :
    /\ tasks[t].pc = "base"
    /\ \E o \in AnalyzeOutcomes(tasks[t].url) :
         IF ~o.ok THEN TaskFail(t, o.exc)
         ELSE IF ~Truthy(Str(o.data.amp_url))
         THEN TaskFinish(t, no_amp_payload(tasks[t].url, tasks[t].request))
         ELSE /\ tasks' = [tasks EXCEPT ![t].pc = "amp", ![t].base = o.data]
              /\ UNCHANGED <<cvars, avars, build>>

\* the AMP analysis of a task's build returns or raises
TaskAmp ==
  \E t \in 1..MaxTasks :
    /\ tasks[t].pc = "amp"
    /\ \E o \in AnalyzeOutcomes(tasks[t].base.amp_url) :
         IF ~o.ok THEN TaskFail(t, o.exc)
         ELSE TaskFinish(t, amp_payload(tasks[t].url, tasks[t].request,
                                        tasks[t].base, o.data))

\* time() moves on while tasks await, far enough for every entry to expire
Expire ==
  /\ now < MaxExpiries * (COMPARE_TTL + 1)
  /\ now' = now + COMPARE_TTL + 1
  /\ UNCHANGED <<cache, puts, got, avars, mvars>>

TaskNext ==
  \/ AmpCompareCall
  \/ WarmStart
  \/ TaskBase
  \/ TaskAmp
  \/ Expire

TaskSpec == TaskInit /\ [][TaskNext]_vars

\* a payload as build_amp_compare_payload returns it
CompletePayload(p) ==
  /\ DOMAIN p = {"request", "url", "amp_url", "rows", "error"}
  /\ \/ p.amp_url = None /\ p.rows = <<>> /\ p.error # None
     \/ p.amp_url # None /\ Len(p.rows) = 14 /\ p.error = None

\* C23: under every interleaving of /amp-compare requests and warm tasks, each
\* cache entry stored under u holds a complete payload built for u whose
\* request is None; serving a hit attaches the request to a copy and leaves the
\* entry unchanged; a warm task whose build fails leaves the cache unchanged
\* and lets no exception out.
C23_CacheEntriesWellFormed ==
  /\ [](\A u \in DOMAIN cache :
          /\ cache[u][2].url = u
          /\ cache[u][2].request = None
          /\ CompletePayload(cache[u][2]))
  /\ [][\A t \in 1..MaxTasks :
          /\ (tasks[t].pc = "idle" /\ tasks'[t].pc = "served") =>
               /\ cache' = cache
               /\ tasks'[t].url \in DOMAIN cache
               /\ tasks'[t].request # None
               /\ tasks'[t].response =
                    [cache[tasks'[t].url][2] EXCEPT !.request = tasks'[t].request]
          /\ (tasks[t].pc # "swallowed" /\ tasks'[t].pc = "swallowed") =>
               /\ tasks[t].kind = "warm"
               /\ cache' = cache
               /\ tasks'[t].exc = None]_vars

\* a request and a warm task built the payload of one URL at the same time:
\* the request was answered with its request attached, the entry has none
C23_Witness ==
  /\ tasks[1].kind = "request" /\ tasks[1].pc = "returned"
  /\ tasks[2].kind = "warm" /\ tasks[2].pc = "done"
  /\ tasks[1].url = tasks[2].url
  /\ Len(puts) = 2 /\ puts[1].ts = puts[2].ts
  /\ tasks[1].response.request = Str("request1")
  /\ Len(tasks[1].response.rows) = 14
  /\ cache[tasks[1].url][2] = stored_payload(tasks[1].response)

====
